---- MODULE Spec2Model ----
(***************************************************************************)
(* Model of the in-memory workbook engine (SheetModel), its formula        *)
(* evaluator and the plan executor of ap-excel-agent.                      *)
(*                                                                         *)
(* Row and column numbers are zero-based as in the source; a TLA+ sequence *)
(* is one-based, so the cell (r, c) of a sheet is rows[r + 1][c + 1].      *)
(* A JavaScript array that is shared by reference (a cell's provenance     *)
(* list) is an entry of the variable heap, and a cell holds its address.   *)
(***************************************************************************)
EXTENDS Integers, Sequences, FiniteSets, TLC

\* sheets, events, checkpoints: the fields of the workbook (wb.sheets in
\* insertion order); heap: the provenance arrays; last: the latest call and
\* its outcome; mark: the workbook as it was at the newest checkpoint and
\* whether only documented mutating operations succeeded since; a1: the
\* latest call of the A1 converters; agent: the request GET /api/agent/stream
\* (where its handler stands, the events it has sent, the model output it
\* has buffered, the plan and how far it is executed); evalRun: a call of
\* evaluateCell or evaluateAll under way (its call stack, its set of visited
\* cells and the place of evaluateAll's loops).
VARIABLES sheets, events, checkpoints, heap, last, mark, a1, agent, evalRun

vars == <<sheets, events, checkpoints, heap, last, mark, a1, agent, evalRun>>

(***************************************************************************)
(* Bounds of the model.                                                    *)
(***************************************************************************)
MaxEvents == 3
MaxCheckpoints == 2
MaxPlanLen == 2
MaxProv == 2
MaxRow == 11
MaxCol == 703
MaxChunks == 4
MaxDepth == 4

(***************************************************************************)
(* Values, formulas and cells.                                             *)
(***************************************************************************)
Null == [k |-> "null", n |-> 0]
Num(n) == [k |-> "num", n |-> n]
StrX == [k |-> "str", n |-> 0]
RefErr == [k |-> "#REF!", n |-> 0]
ErrVal == [k |-> "#ERROR!", n |-> 0]

\* A term of a formula: a numeric literal, a cell reference in A1 notation
\* (column letters as numbers 1..26, and the row number as written), or
\* SUM over one A1:B2 range.
NumT(n) == [n |-> n, t |-> "num", col |-> <<>>, row |-> 0, col2 |-> <<>>, row2 |-> 0]
RefT(col, row) == [n |-> 0, t |-> "ref", col |-> col, row |-> row, col2 |-> col, row2 |-> row]
SumT(col, row, col2, row2) == [n |-> 0, t |-> "sum", col |-> col, row |-> row, col2 |-> col2, row2 |-> row2]

\* A formula "=t1+t2+..." ; bad marks an expression that fails to evaluate
\* after substitution (such as "=A1+"); "text" is a formula string that does
\* not start with "=".
NoFormula == [k |-> "none", terms |-> <<>>, bad |-> FALSE]
Expr(terms) == [k |-> "expr", terms |-> terms, bad |-> FALSE]
BadExpr(terms) == [k |-> "expr", terms |-> terms, bad |-> TRUE]
TextFormula == [k |-> "text", terms |-> <<>>, bad |-> FALSE]

NoFormat == "none"

Cell(v, f, fmt, p) == [value |-> v, formula |-> f, format |-> fmt, prov |-> p]
EmptyCell == Cell(Null, NoFormula, NoFormat, 0)

RangeRef(s, r1, c1, r2, c2) == [r1 |-> r1, c1 |-> c1, r2 |-> r2, c2 |-> c2, sheet |-> s]
NoRange == RangeRef("", 0, 0, 0, 0)
NoSheet == [name |-> "", rows |-> <<>>]

\* The workbook as one record, for the operators that transform it.
Workbook(s, e, cp, h) == [sheets |-> s, events |-> e, checkpoints |-> cp, heap |-> h]

Ok(w) == [w |-> w, err |-> ""]
Throw(w, e) == [w |-> w, err |-> e]

(***************************************************************************)
(* Helpers of SheetModel.                                                  *)
(***************************************************************************)
HasSheet(w, name) == \E i \in 1..Len(w.sheets) : w.sheets[i].name = name

SheetIdx(w, name) == CHOOSE i \in 1..Len(w.sheets) : w.sheets[i].name = name

getSheet(w, name) == w.sheets[SheetIdx(w, name)]

SetRows(w, name, rows) == [w EXCEPT !.sheets[SheetIdx(w, name)].rows = rows]

\* The arrays are built element by element, as the loops of the source push
\* onto them.
RECURSIVE PadRows(_, _)
PadRows(rows, n) == IF Len(rows) < n THEN PadRows(Append(rows, <<>>), n) ELSE rows

RECURSIVE PadRow(_, _)
PadRow(row, n) == IF Len(row) < n THEN PadRow(Append(row, EmptyCell), n) ELSE row

ensureSizeRows(rows, nrows, ncols) ==
  LET grown == PadRows(rows, nrows)
      each[i \in 0..Len(grown)] == IF i = 0 THEN <<>> ELSE Append(each[i - 1], PadRow(grown[i], ncols))
  IN  each[Len(grown)]

ensureSize(w, name, nrows, ncols) == SetRows(w, name, ensureSizeRows(getSheet(w, name).rows, nrows, ncols))

RECURSIVE ColNum(_)
ColNum(col) == IF col = <<>> THEN 0 ELSE ColNum(SubSeq(col, 1, Len(col) - 1)) * 26 + col[Len(col)]

a1ToRc(col, row) == [r |-> row - 1, c |-> ColNum(col) - 1]

\* A1 references as text: a sequence of character codes.
IsLetter(ch) == ch \in 65..90 \/ ch \in 97..122
IsDigit(ch) == ch \in 48..57
toUpperCase(ch) == IF ch \in 97..122 THEN ch - 32 ELSE ch

\* The length of the longest prefix of letters: the group ([A-Za-z]+).
RECURSIVE LetterPrefix(_)
LetterPrefix(text) == IF text # <<>> /\ IsLetter(Head(text)) THEN 1 + LetterPrefix(Tail(text)) ELSE 0

\* colStr.charCodeAt(i) - 64 of the upper-cased letters.
RECURSIVE ColCodes(_)
ColCodes(letters) == IF letters = <<>> THEN <<>> ELSE <<toUpperCase(Head(letters)) - 64>> \o ColCodes(Tail(letters))

\* parseInt(digits, 10)
RECURSIVE parseInt(_)
parseInt(digits) == IF digits = <<>> THEN 0 ELSE parseInt(SubSeq(digits, 1, Len(digits) - 1)) * 10 + (digits[Len(digits)] - 48)

\* ref.match(/^([A-Za-z]+)([0-9]+)$/): the letters and the number, or no match.
MatchA1(text) ==
  LET n == LetterPrefix(text) IN
    IF n >= 1 /\ n < Len(text) /\ \A i \in (n + 1)..Len(text) : IsDigit(text[i])
    THEN [col |-> ColCodes(SubSeq(text, 1, n)), row |-> parseInt(SubSeq(text, n + 1, Len(text))), matched |-> TRUE]
    ELSE [col |-> <<>>, row |-> 0, matched |-> FALSE]

\* A faulty variant of ColLetters: the remainder is taken of n, not of n - 1.
RECURSIVE ColLettersOffByOne(_, _)
ColLettersOffByOne(n, s) == IF n > 0 THEN ColLettersOffByOne(n \div 26, <<65 + (n % 26)>> \o s) ELSE s

\* The letters of column number n, most significant first, before s.
RECURSIVE ColLetters(_, _)
ColLetters(n, s) == IF n > 0 THEN ColLetters((n - 1) \div 26, <<65 + ((n - 1) % 26)>> \o s) ELSE s

\* String(n) of a positive integer: its decimal digits.
RECURSIVE Decimal(_)
Decimal(n) == IF n < 10 THEN <<48 + n>> ELSE Decimal(n \div 10) \o <<48 + (n % 10)>>

rcToA1(r, c) == ColLetters(c + 1, <<>>) \o Decimal(r + 1)

\* The pre-image of a range: the sheet is grown first, the cells are shallow
\* copies (a copy shares the provenance list of the cell it copies).
snapshotCells(rows, range) ==
  LET h == range.r2 - range.r1 + 1
      w == range.c2 - range.c1 + 1
      row[i \in 1..h] ==
        LET cells[j \in 0..w] == IF j = 0 THEN <<>> ELSE Append(cells[j - 1], rows[range.r1 + i][range.c1 + j])
        IN  cells[w]
      out[i \in 0..h] == IF i = 0 THEN <<>> ELSE Append(out[i - 1], row[i])
  IN  out[h]

snapshot(w, range) ==
  [w |-> ensureSize(w, range.sheet, range.r2 + 1, range.c2 + 1),
   cells |-> snapshotCells(ensureSizeRows(getSheet(w, range.sheet).rows, range.r2 + 1, range.c2 + 1), range)]

Inverse(op, name, sheet, range, cells) == [sheet |-> sheet, name |-> name, range |-> range, cells |-> cells, op |-> op]

appendEvent(w, op, inverse) == [w EXCEPT !.events = Append(@, [op |-> op, inverse |-> inverse])]

checkpoint(w, id) == [w EXCEPT !.checkpoints = Append(@, [id |-> id, atEvent |-> Len(w.events)])]

\* Allocation of a fresh array.
NewAddr(h) == CHOOSE i \in 1..(Cardinality(DOMAIN h) + 1) : i \notin DOMAIN h /\ \A j \in 1..(i - 1) : j \in DOMAIN h

Alloc(h, a, content) == [i \in (DOMAIN h) \cup {a} |-> IF i = a THEN content ELSE h[i]]

(***************************************************************************)
(* The operations of SheetModel.  Each takes the workbook and returns the  *)
(* workbook it leaves behind together with the error it throws ("" when    *)
(* it returns normally).  A throw in the middle of a loop keeps the writes *)
(* made before it.                                                         *)
(***************************************************************************)
\* A faulty variant of createSheet: no check for an existing name, the
\* sheet of that name is replaced by an empty one.
createSheetOverwrites(w, name) ==
  Ok(appendEvent([w EXCEPT !.sheets = Append(SelectSeq(@, LAMBDA s : s.name # name), [name |-> name, rows |-> <<>>])],
                 "createSheet", Inverse("deleteSheet", name, NoSheet, NoRange, <<>>)))

createSheet(w, name) ==
  IF HasSheet(w, name) THEN Throw(w, "Sheet exists")
  ELSE Ok(appendEvent([w EXCEPT !.sheets = Append(@, [name |-> name, rows |-> <<>>])],
                      "createSheet", Inverse("deleteSheet", name, NoSheet, NoRange, <<>>)))

RemoveSheet(ss, name) == SelectSeq(ss, LAMBDA s : s.name # name)

deleteSheet(w, name) ==
  IF ~HasSheet(w, name) THEN Throw(w, "Sheet not found")
  ELSE Ok(appendEvent([w EXCEPT !.sheets = RemoveSheet(@, name)],
                      "deleteSheet", Inverse("restoreSheet", "", getSheet(w, name), NoRange, <<>>)))

\* Map.set: an existing key keeps its place, a new key goes last.
PutSheet(ss, sheet) ==
  IF \E i \in 1..Len(ss) : ss[i].name = sheet.name
  THEN LET set[i \in 0..Len(ss)] ==
             IF i = 0 THEN <<>> ELSE Append(set[i - 1], IF ss[i].name = sheet.name THEN sheet ELSE ss[i])
       IN  set[Len(ss)]
  ELSE Append(ss, sheet)

\* A faulty variant of restoreSheet: the sheet comes back without its rows.
restoreSheetEmpty(w, sheet) ==
  Ok(appendEvent([w EXCEPT !.sheets = PutSheet(@, [name |-> sheet.name, rows |-> <<>>])],
                 "restoreSheet", Inverse("deleteSheet", sheet.name, NoSheet, NoRange, <<>>)))

restoreSheet(w, sheet) ==
  Ok(appendEvent([w EXCEPT !.sheets = PutSheet(@, sheet)],
                 "restoreSheet", Inverse("deleteSheet", sheet.name, NoSheet, NoRange, <<>>)))

\* A faulty variant of WrittenCell: setValues keeps the formula of the cell.
WrittenCellKeepsFormula(op, prev, x, p) ==
  CASE op = "setValues" -> [prev EXCEPT !.value = x, !.prov = IF p # 0 THEN p ELSE prev.prov]
    [] op = "setFormulas" -> [prev EXCEPT !.value = Null, !.formula = x]
    [] OTHER -> x

\* The cell that setValues, setFormulas or setCells stores at one position.
\* x is the array element; p is the address of the copy of the provenance
\* argument (0 when setValues has no provenance argument).
WrittenCell(op, prev, x, p) ==
  CASE op = "setValues" -> [prev EXCEPT !.value = x, !.formula = NoFormula, !.prov = IF p # 0 THEN p ELSE prev.prov]
    [] op = "setFormulas" -> [prev EXCEPT !.value = Null, !.formula = x]
    [] OTHER -> x

PutCell(row, cc, cell) == IF cc < Len(row) THEN [row EXCEPT ![cc + 1] = cell] ELSE Append(row, cell)

\* The double loop "for r < arr.length, for c < arr[r].length" of setValues,
\* setFormulas and setCells, from position (r, c) on.  It runs over the
\* ARRAY's size, not the range's: a row index outside the sheet throws a
\* TypeError, a column index past the end of a row extends the row.
RECURSIVE writeLoop(_, _, _, _, _, _, _, _)
writeLoop(w, op, range, arr, r, c, hasProv, prov) ==
  IF r >= Len(arr) THEN Ok(w)
  ELSE IF c >= Len(arr[r + 1]) THEN writeLoop(w, op, range, arr, r + 1, 0, hasProv, prov)
  ELSE LET rr == range.r1 + r
           cc == range.c1 + c
           rows == getSheet(w, range.sheet).rows
       IN  IF rr >= Len(rows) THEN Throw(w, "TypeError")
           ELSE LET row == rows[rr + 1]
                    prev == IF cc < Len(row) THEN row[cc + 1] ELSE EmptyCell
                    a == IF op = "setValues" /\ hasProv THEN NewAddr(w.heap) ELSE 0
                    h1 == IF a # 0 THEN Alloc(w.heap, a, prov) ELSE w.heap
                    cell == WrittenCell(op, prev, arr[r + 1][c + 1], a)
                    w1 == SetRows([w EXCEPT !.heap = h1], range.sheet, [rows EXCEPT ![rr + 1] = PutCell(row, cc, cell)])
                IN  writeLoop(w1, op, range, arr, r, c + 1, hasProv, prov)

\* The event is appended only when the loops have run to their end.
Logged(res, op, inverse) == IF res.err # "" THEN res ELSE Ok(appendEvent(res.w, op, inverse))

\* The body of setValues and setFormulas once the pre-image is taken.
WriteAfter(before, op, range, arr, hasProv, prov) ==
  Logged(writeLoop(before.w, op, range, arr, 0, 0, hasProv, prov),
         op, Inverse("setCells", "", NoSheet, range, before.cells))

setValues(w, range, values, hasProv, prov) ==
  IF ~HasSheet(w, range.sheet) THEN Throw(w, "Sheet not found")
  ELSE WriteAfter(snapshot(w, range), "setValues", range, values, hasProv, prov)

\* A faulty variant of setCells: its inverse replays the cells it replaced.
setCellsRedoable(w, range, cells) ==
  IF ~HasSheet(w, range.sheet) THEN Throw(w, "Sheet not found")
  ELSE WriteAfter(snapshot(w, range), "setCells", range, cells, FALSE, <<>>)

setCells(w, range, cells) ==
  IF ~HasSheet(w, range.sheet) THEN Throw(w, "Sheet not found")
  ELSE Logged(writeLoop(ensureSize(w, range.sheet, range.r2 + 1, range.c2 + 1), "setCells", range, cells, 0, 0, FALSE, <<>>),
              "setCells", Inverse("noop", "", NoSheet, NoRange, <<>>))

setFormulas(w, range, formulas) ==
  IF ~HasSheet(w, range.sheet) THEN Throw(w, "Sheet not found")
  ELSE WriteAfter(snapshot(w, range), "setFormulas", range, formulas, FALSE, <<>>)

InRange(range, r, c) == range.r1 <= r /\ r <= range.r2 /\ range.c1 <= c /\ c <= range.c2

FormatRows(rows, range, format) ==
  LET row[i \in 1..Len(rows)] ==
        LET cells[j \in 0..Len(rows[i])] ==
              IF j = 0 THEN <<>>
              ELSE Append(cells[j - 1], IF InRange(range, i - 1, j - 1) THEN [rows[i][j] EXCEPT !.format = format] ELSE rows[i][j])
        IN  cells[Len(rows[i])]
      out[i \in 0..Len(rows)] == IF i = 0 THEN <<>> ELSE Append(out[i - 1], row[i])
  IN  out[Len(rows)]

FormatAfter(before, range, format) ==
  Ok(appendEvent(SetRows(before.w, range.sheet, FormatRows(getSheet(before.w, range.sheet).rows, range, format)),
                 "formatRange", Inverse("setCells", "", NoSheet, range, before.cells)))

formatRange(w, range, format) ==
  IF ~HasSheet(w, range.sheet) THEN Throw(w, "Sheet not found")
  ELSE FormatAfter(snapshot(w, range), range, format)

\* The loops of linkProvenance from (r, c) on: a cell without a list gets a
\* new one, and the entries are pushed onto the cell's list IN PLACE, so
\* every holder of that list sees them.
RECURSIVE linkLoop(_, _, _, _, _)
linkLoop(w, range, prov, r, c) ==
  IF r > range.r2 THEN w
  ELSE IF c > range.c2 THEN linkLoop(w, range, prov, r + 1, range.c1)
  ELSE LET rows == getSheet(w, range.sheet).rows
           cell == rows[r + 1][c + 1]
           a == IF cell.prov = 0 THEN NewAddr(w.heap) ELSE cell.prov
           h1 == IF cell.prov = 0 THEN Alloc(w.heap, a, prov) ELSE [w.heap EXCEPT ![a] = @ \o prov]
           w1 == SetRows([w EXCEPT !.heap = h1], range.sheet, [rows EXCEPT ![r + 1][c + 1].prov = a])
       IN  linkLoop(w1, range, prov, r, c + 1)

LinkAfter(before, range, prov) ==
  Ok(appendEvent(linkLoop(before.w, range, prov, range.r1, range.c1),
                 "linkProvenance", Inverse("setCells", "", NoSheet, range, before.cells)))

linkProvenance(w, range, prov) ==
  IF ~HasSheet(w, range.sheet) THEN Throw(w, "Sheet not found")
  ELSE LinkAfter(snapshot(w, range), range, prov)

\* The arguments of a dispatch call, one record shape for every operation.
Args(name, sheet, range, arr, format, hasProv, prov) ==
  [format |-> format, prov |-> prov, sheet |-> sheet, name |-> name, range |-> range, arr |-> arr, hasProv |-> hasProv]

\* A faulty variant of dispatch: the default branch never throws.
dispatchLenient(w, op, args, internal) ==
  CASE op = "createSheet" -> createSheet(w, args.name)
    [] op = "deleteSheet" -> deleteSheet(w, args.name)
    [] op = "restoreSheet" -> restoreSheet(w, args.sheet)
    [] op = "setValues" -> setValues(w, args.range, args.arr, args.hasProv, args.prov)
    [] op = "setFormulas" -> setFormulas(w, args.range, args.arr)
    [] op = "formatRange" -> formatRange(w, args.range, args.format)
    [] op = "setCells" -> setCells(w, args.range, args.arr)
    [] op = "linkProvenance" -> linkProvenance(w, args.range, IF args.hasProv THEN args.prov ELSE <<>>)
    [] OTHER -> Ok(w)

dispatch(w, op, args, internal) ==
  CASE op = "createSheet" -> createSheet(w, args.name)
    [] op = "deleteSheet" -> deleteSheet(w, args.name)
    [] op = "restoreSheet" -> restoreSheet(w, args.sheet)
    [] op = "setValues" -> setValues(w, args.range, args.arr, args.hasProv, args.prov)
    [] op = "setFormulas" -> setFormulas(w, args.range, args.arr)
    [] op = "formatRange" -> formatRange(w, args.range, args.format)
    [] op = "setCells" -> setCells(w, args.range, args.arr)
    [] op = "linkProvenance" -> linkProvenance(w, args.range, IF args.hasProv THEN args.prov ELSE <<>>)
    [] op = "noop" -> Ok(w)
    [] OTHER -> IF internal THEN Ok(w) ELSE Throw(w, "Unknown op")

InverseArgs(inv) == Args(inv.name, inv.sheet, inv.range, inv.cells, NoFormat, FALSE, <<>>)

\* undo: the event is popped before its inverse is dispatched; res.ev is the
\* number of events popped (0 when the log is empty and undo returns null).
Popped(res) == [w |-> res.w, err |-> res.err, popped |-> 1]

undo(w) ==
  IF w.events = <<>> THEN [w |-> w, err |-> "", popped |-> 0]
  ELSE Popped(dispatch([w EXCEPT !.events = SubSeq(@, 1, Len(@) - 1)],
                       w.events[Len(w.events)].inverse.op, InverseArgs(w.events[Len(w.events)].inverse), TRUE))

(***************************************************************************)
(* Evaluation.  The operators work on the rows of one sheet and hand back  *)
(* the rows (getCell grows the sheet), the set of visited cells (one       *)
(* mutable Set shared by the whole top-level call) and whether a TypeError *)
(* escaped.                                                                *)
(***************************************************************************)
EvalRes(v, rows, seen, threw) == [v |-> v, rows |-> rows, seen |-> seen, threw |-> threw]

\* evalRef: number as is, null -> 0, any other value through Number(),
\* which is NaN -> 0 for the strings of the model.
RefNumber(v) == IF v.k = "num" THEN v.n ELSE 0

\* sumRange: a number is added, Number(null) = 0, NaN is skipped.
SumNumber(v) == IF v.k = "num" THEN v.n ELSE 0

Min(a, b) == IF a <= b THEN a ELSE b
Max(a, b) == IF a >= b THEN a ELSE b

IsSumTerm(t) == t.t = "sum"
IsRefTerm(t) == t.t = "ref"

RECURSIVE SumNums(_)
SumNums(terms) == IF terms = <<>> THEN 0 ELSE (IF terms[1].t = "num" THEN terms[1].n ELSE 0) + SumNums(Tail(terms))

RECURSIVE evaluateCell(_, _, _, _)
RECURSIVE sumRangeLoop(_, _, _, _, _, _, _, _)
RECURSIVE evalTerms(_, _, _, _)

\* The end of evaluateCell: the number the expression came to, or '#ERR'
\* from the catch around the Function call.
Computed(f, res) ==
  IF res.threw THEN res
  ELSE IF f.bad THEN EvalRes(ErrVal, res.rows, res.seen, FALSE)
  ELSE EvalRes(Num(res.v), res.rows, res.seen, FALSE)

\* evaluateCell on the sheet as getCell has grown it: the row lookup throws
\* for a row that is not there (row -1, from a reference to row 0); a cell
\* without a formula yields its value.
evalGrown(rows1, r, c, seen1) ==
  IF r < 0 THEN EvalRes(Null, rows1, seen1, TRUE)
  ELSE IF rows1[r + 1][c + 1].formula.k # "expr" THEN EvalRes(rows1[r + 1][c + 1].value, rows1, seen1, FALSE)
  ELSE Computed(rows1[r + 1][c + 1].formula,
                evalTerms(rows1, seen1,
                          SelectSeq(rows1[r + 1][c + 1].formula.terms, IsSumTerm)
                            \o SelectSeq(rows1[r + 1][c + 1].formula.terms, IsRefTerm),
                          SumNums(rows1[r + 1][c + 1].formula.terms)))

evaluateCell(rows, r, c, seen) ==
  IF <<r, c>> \in seen THEN EvalRes(RefErr, rows, seen, FALSE)
  ELSE evalGrown(ensureSizeRows(rows, r + 1, c + 1), r, c, seen \cup {<<r, c>>})

Coerced(res) == IF res.threw THEN res ELSE [res EXCEPT !.v = RefNumber(res.v)]

evalRef(rows, col, row, seen) == Coerced(evaluateCell(rows, a1ToRc(col, row).r, a1ToRc(col, row).c, seen))

\* The loops of sumRange from (r, c) on, total so far included.
sumRangeNext(res, r, c, c0, rmax, cmax, total) ==
  IF res.threw THEN res
  ELSE sumRangeLoop(res.rows, res.seen, r, c + 1, c0, rmax, cmax, total + SumNumber(res.v))

sumRangeLoop(rows, seen, r, c, c0, rmax, cmax, total) ==
  IF r > rmax THEN EvalRes(total, rows, seen, FALSE)
  ELSE IF c > cmax THEN sumRangeLoop(rows, seen, r + 1, c0, c0, rmax, cmax, total)
  ELSE sumRangeNext(evaluateCell(rows, r, c, seen), r, c, c0, rmax, cmax, total)

sumRangeOver(rows, a, b, seen) ==
  sumRangeLoop(rows, seen, Min(a.r, b.r), Min(a.c, b.c), Min(a.c, b.c), Max(a.r, b.r), Max(a.c, b.c), 0)

sumRange(rows, t, seen) == sumRangeOver(rows, a1ToRc(t.col, t.row), a1ToRc(t.col2, t.row2), seen)

\* The two replace() passes of evaluateCell: the terms in the order in which
\* they are evaluated (every SUM first, then every reference), added up.
evalTermsNext(res, terms, total) ==
  IF res.threw THEN res
  ELSE evalTerms(res.rows, res.seen, Tail(terms), total + res.v)

evalTerms(rows, seen, terms, total) ==
  IF terms = <<>> THEN EvalRes(total, rows, seen, FALSE)
  ELSE evalTermsNext(IF terms[1].t = "sum" THEN sumRange(rows, terms[1], seen)
                     ELSE evalRef(rows, terms[1].col, terms[1].row, seen),
                     terms, total)

\* The loops of evaluateAll over one sheet from (r, c) on; the bounds are
\* read again at every step, so cells added by growth are visited too.
RECURSIVE evalSheetLoop(_, _, _)
evalSheetNext(res, r, c) ==
  IF res.threw THEN [rows |-> res.rows, threw |-> TRUE]
  ELSE evalSheetLoop(res.rows, r, c + 1)

evalSheetLoop(rows, r, c) ==
  IF r >= Len(rows) THEN [rows |-> rows, threw |-> FALSE]
  ELSE IF c >= Len(rows[r + 1]) THEN evalSheetLoop(rows, r + 1, 0)
  ELSE evalSheetNext(evaluateCell(rows, r, c, {}), r, c)

RECURSIVE evalSheetsFrom(_, _)
evalSheetsNext(w, i, res) ==
  IF res.threw THEN Throw([w EXCEPT !.sheets[i].rows = res.rows], "TypeError")
  ELSE evalSheetsFrom([w EXCEPT !.sheets[i].rows = res.rows], i + 1)

evalSheetsFrom(w, i) ==
  IF i > Len(w.sheets) THEN Ok(w)
  ELSE evalSheetsNext(w, i, evalSheetLoop(w.sheets[i].rows, 0, 0))

evaluateAll(w) == evalSheetsFrom(w, 1)

\* The value a top-level evaluateCell(sheet, r, c) returns.
Evaluated(rows, r, c) == evaluateCell(rows, r, c, {})

\* The cell as toJSON reports it.
toJSONCell(cell) == [value |-> cell.value, formula |-> cell.formula, format |-> cell.format]

(***************************************************************************)
(* loadFromJSON and the plan executor.                                     *)
(***************************************************************************)
LoadedSheet(s) ==
  LET row[i \in 1..Len(s.rows)] ==
        LET cells[j \in 0..Len(s.rows[i])] ==
              IF j = 0 THEN <<>> ELSE Append(cells[j - 1], Cell(s.rows[i][j], NoFormula, NoFormat, 0))
        IN  cells[Len(s.rows[i])]
      out[i \in 0..Len(s.rows)] == IF i = 0 THEN <<>> ELSE Append(out[i - 1], row[i])
  IN  [name |-> s.name, rows |-> out[Len(s.rows)]]

RECURSIVE LoadSheets(_, _)
LoadSheets(ss, data) == IF data = <<>> THEN ss ELSE LoadSheets(PutSheet(ss, LoadedSheet(data[1])), Tail(data))

\* A faulty variant of loadFromJSON: the checkpoints are not reset.
loadFromJSONKeepsCheckpoints(w, data) ==
  LET w1 == [w EXCEPT !.sheets = LoadSheets(<<>>, data)]
      w2 == IF w1.sheets = <<>> THEN createSheet(w1, "Sheet1").w ELSE w1
      w3 == checkpoint([w2 EXCEPT !.events = <<>>], "import")
  IN  evaluateAll(w3)

\* The entries of data before the first one that has no rows; s.rows.map
\* throws a TypeError on that one.
RECURSIVE WithRows(_)
WithRows(data) ==
  IF data = <<>> \/ "rows" \notin DOMAIN data[1] THEN <<>> ELSE <<data[1]>> \o WithRows(Tail(data))

\* The sheets are cleared and set one by one before events and checkpoints
\* are reset: a throw in the loop leaves the sheets loaded so far with the
\* event log and the checkpoints of the workbook before.
loadFromJSON(w, data) ==
  IF WithRows(data) # data THEN Throw([w EXCEPT !.sheets = LoadSheets(<<>>, WithRows(data))], "TypeError")
  ELSE LET w1 == [w EXCEPT !.sheets = LoadSheets(<<>>, data)]
           w2 == IF w1.sheets = <<>> THEN createSheet(w1, "Sheet1").w ELSE w1
           w3 == checkpoint([w2 EXCEPT !.events = <<>>, !.checkpoints = <<>>], "import")
       IN  evaluateAll(w3)

\* A plan step: the operation, its arguments, and the legacy fields r3/c3
\* of its range (Undef when absent; then r2/c2 of the range are set).
Undef == 0 - 1
Step(op, args, r3, c3) == [op |-> op, args |-> args, r3 |-> r3, c3 |-> c3, explain |-> ""]

sanitizedArgs(step) ==
  LET rg == step.args.range
      r2 == IF step.r3 # Undef /\ rg.r2 = Undef THEN step.r3 ELSE rg.r2
      c2 == IF step.c3 # Undef /\ rg.c2 = Undef THEN step.c3 ELSE rg.c2
  IN  [step.args EXCEPT !.range = [rg EXCEPT !.r2 = r2, !.c2 = c2]]

Failed(step, err) == [step EXCEPT !.explain = "FAILED: " \o err]

\* The loop of executePlan from step i on.
RECURSIVE planLoop(_, _, _, _)
planNext(res, steps, i, executed) ==
  IF res.err # "" THEN [w |-> res.w, executed |-> Append(executed, Failed(steps[i], res.err))]
  ELSE planLoop(res.w, steps, i + 1, Append(executed, steps[i]))

planLoop(w, steps, i, executed) ==
  IF i > Len(steps) THEN [w |-> w, executed |-> executed]
  ELSE planNext(dispatch(w, steps[i].op, sanitizedArgs(steps[i]), FALSE), steps, i, executed)

\* executePlan: err is the error that escapes it (from evaluateAll), in
\* which case no checkpoint is taken and nothing is returned.
planEnd(executed, ev) ==
  IF ev.err # "" THEN [w |-> ev.w, err |-> ev.err, executed |-> executed]
  ELSE [w |-> checkpoint(ev.w, "agent"), err |-> "", executed |-> executed]

planEvaluate(run) == planEnd(run.executed, evaluateAll(run.w))

executePlan(w, steps) == planEvaluate(planLoop(w, steps, 1, <<>>))

(***************************************************************************)
(* The state machine.                                                      *)
(***************************************************************************)
Current == Workbook(sheets, events, checkpoints, heap)

\* Addresses that the workbook still holds: in cells of sheets, in the
\* pre-images and in the deleted sheets kept by the events' inverses.
RowsRefsOf(rows) == UNION {{rows[i][j].prov : j \in 1..Len(rows[i])} : i \in 1..Len(rows)} \ {0}

Reachable(w) ==
  UNION ({RowsRefsOf(w.sheets[i].rows) : i \in 1..Len(w.sheets)}
         \cup {RowsRefsOf(w.events[i].inverse.cells) : i \in 1..Len(w.events)}
         \cup {RowsRefsOf(w.events[i].inverse.sheet.rows) : i \in 1..Len(w.events)})

Collect(w) == [a \in (DOMAIN w.heap) \cap Reachable(w) |-> w.heap[a]]

NoArgs == Args("", NoSheet, NoRange, <<>>, NoFormat, FALSE, <<>>)

Last(call, op, args, err, popped, plan, executed) ==
  [err |-> err, op |-> op, args |-> args, popped |-> popped, executed |-> executed, call |-> call, plan |-> plan]

Mark(w, clean) == [sheets |-> w.sheets, heap |-> Collect(w), clean |-> clean]

DocumentedOps == {"createSheet", "deleteSheet", "setValues", "setFormulas", "formatRange", "linkProvenance"}

\* The workbook a call leaves becomes the state; the provenance lists stay
\* within the bound of the model.
Commit(w) ==
  /\ \A a \in DOMAIN w.heap : Len(w.heap[a]) <= MaxProv
  /\ sheets' = w.sheets
  /\ events' = w.events
  /\ checkpoints' = w.checkpoints
  /\ heap' = Collect(w)

\* The last call of the static converters: rcToA1(r, c) returned text, and
\* a1ToRc(text) returned back or threw err.
Converted(call, r, c, text, back, err) == [err |-> err, r |-> r, c |-> c, text |-> text, call |-> call, back |-> back]

NoRc == [r |-> 0 - 1, c |-> 0 - 1]

\* new SheetModel()
\* The agent stream request: pc is the place where its handler stands, out
\* the types of the events sent so far, calls the number of requests made to
\* the model backend, full the chunks of model output buffered so far, steps
\* the parsed plan, done the number of its steps gone through and executed
\* what executePlan has pushed.
Agent(pc, choice, out, calls, full, steps, done, executed) ==
  [out |-> out, steps |-> steps, executed |-> executed, pc |-> pc, choice |-> choice, calls |-> calls, full |-> full, done |-> done]

NoStream == Agent("idle", "", <<>>, 0, <<>>, <<>>, 0, <<>>)

\* A faulty variant of Suspended: the handler would also give way while it
\* goes through the plan.
SuspendedBetweenSteps(pc) == pc \in {"idle", "fetch", "fetch2", "read", "closed", "step", "evaluate", "checkpoint"}

\* The handler of the stream is suspended, and another request can run, only
\* where it awaits: the two fetches and reader.read(); before it has begun
\* and after res.end() it does not run at all.
Suspended(pc) == pc \in {"idle", "fetch", "fetch2", "read", "closed"}

\* A call of evaluateCell under way, one per formula cell being evaluated:
\* the cell, the cells its formula still has to evaluate (those of its SUM
\* ranges, then its references), the sum so far, and whether the
\* expression fails once the numbers are put in.
Frame(r, c, todo, total, bad) == [bad |-> bad, r |-> r, c |-> c, total |-> total, todo |-> todo]

\* An evaluation: pc is where it stands ("rest" when none is under way),
\* stack its frames, seen the Set handed down, arg the cell of the call
\* being made, v the value being returned, sheet the sheet, top the cell of
\* the top-level call (for evaluateAll, all = TRUE, the place of its loops).
Evaluation(pc, stack, seen, arg, v, sheet, top, all) ==
  [v |-> v, sheet |-> sheet, seen |-> seen, pc |-> pc, stack |-> stack, arg |-> arg, top |-> top, all |-> all]

NoEvaluation == Evaluation("rest", <<>>, {}, [r |-> 0, c |-> 0], Null, 1, [r |-> 0, c |-> 0], FALSE)

\* No evaluation is under way: a call can be made.
Resting(pc) == pc \in {"rest", "returned", "threw"}

Constructed == checkpoint(createSheet(Workbook(<<>>, <<>>, <<>>, <<>>), "Sheet1").w, "init")

Init ==
  /\ sheets = Constructed.sheets
  /\ events = Constructed.events
  /\ checkpoints = Constructed.checkpoints
  /\ heap = Constructed.heap
  /\ last = Last("new", "", NoArgs, "", 0, <<>>, <<>>)
  /\ mark = Mark(Constructed, TRUE)
  /\ a1 = Converted("", 0, 0, <<>>, NoRc, "")
  /\ agent = NoStream
  /\ evalRun = NoEvaluation

\* The step of the state machine that a call makes: the workbook it leaves,
\* within the bounds of the model, and the record of the call.  A call that
\* ends at a checkpoint (loadFromJSON, a plan that returned) or keeps the
\* state a run of documented operations from one (dispatch) keeps the mark.
Transition(call, op, args, plan, res) ==
  /\ Suspended(agent.pc)
  /\ Resting(evalRun.pc)
  /\ Len(res.w.events) <= MaxEvents
  /\ Len(res.w.checkpoints) <= MaxCheckpoints
  /\ Commit(res.w)
  /\ UNCHANGED <<a1, agent, evalRun>>
  /\ last' = Last(call, op, args, res.err,
                  IF "popped" \in DOMAIN res THEN res.popped ELSE 0,
                  plan,
                  IF "executed" \in DOMAIN res THEN res.executed ELSE <<>>)
  /\ mark' = CASE call = "dispatch" -> [mark EXCEPT !.clean = @ /\ res.err = "" /\ op \in DocumentedOps]
                [] call \in {"loadFromJSON", "executePlan"} /\ res.err = "" -> Mark(res.w, TRUE)
                [] OTHER -> [mark EXCEPT !.clean = FALSE]

\* model.dispatch(op, args)
Dispatch(op, args) == Transition("dispatch", op, args, <<>>, dispatch(Current, op, args, FALSE))

\* model.dispatch(op, args, true)
DispatchInternal(op, args) == Transition("dispatchInternal", op, args, <<>>, dispatch(Current, op, args, TRUE))

\* model.undo()
Undo == Transition("undo", "", NoArgs, <<>>, undo(Current))

\* model.checkpoint(id)
Checkpoint ==
  \E id \in {"user"} :
    /\ Suspended(agent.pc)
    /\ Resting(evalRun.pc)
    /\ Len(checkpoints) < MaxCheckpoints
    /\ Commit(checkpoint(Current, id))
    /\ UNCHANGED <<a1, agent, evalRun>>
    /\ last' = Last("checkpoint", id, NoArgs, "", 0, <<>>, <<>>)
    /\ mark' = Mark(Current, TRUE)

\* model.evaluateAll()
EvaluateAll == Transition("evaluateAll", "", NoArgs, <<>>, evaluateAll(Current))

\* The handlers' "model.evaluateAll()" after a call that did not throw.
evaluatedAfter(d, e) == [d EXCEPT !.w = e.w, !.err = e.err]

thenEvaluateAll(d) == IF d.err # "" THEN d ELSE evaluatedAfter(d, evaluateAll(d.w))

\* POST /api/sheetOps: dispatch, then evaluateAll unless dispatch threw.
SheetOps(op, args) == Transition("sheetOps", op, args, <<>>, thenEvaluateAll(dispatch(Current, op, args, FALSE)))

\* POST /api/undo: undo, then evaluateAll.
UndoRequest == Transition("undoRequest", "", NoArgs, <<>>, thenEvaluateAll(undo(Current)))

\* model.loadFromJSON(data)
LoadFromJSON(data) ==
  Transition("loadFromJSON", "", Args("", NoSheet, NoRange, data, NoFormat, FALSE, <<>>), <<>>, loadFromJSON(Current, data))

\* executePlan(plan, wb)
ExecutePlan(steps) == Transition("executePlan", "", NoArgs, steps, executePlan(Current, steps))

\* SheetModel.rcToA1(r, c): static, the workbook is not involved.
RcToA1(r, c) ==
  /\ a1' = Converted("rcToA1", r, c, rcToA1(r, c), NoRc, "")
  /\ UNCHANGED <<sheets, events, checkpoints, heap, last, mark, agent, evalRun>>

\* SheetModel.a1ToRc(text), m being the match of the text: static as well.
A1ToRc(call, r, c, text, m) ==
  /\ a1' = IF m.matched THEN Converted(call, r, c, text, a1ToRc(m.col, m.row), "")
           ELSE Converted(call, r, c, text, NoRc, "Bad A1 ref")
  /\ UNCHANGED <<sheets, events, checkpoints, heap, last, mark, agent, evalRun>>

(***************************************************************************)
(* Inputs.                                                                 *)
(***************************************************************************)
Names == {"Sheet1", "S2"}

ColA == <<1>>
ColB == <<2>>

A1(s) == RangeRef(s, 0, 0, 0, 0)
A1B1(s) == RangeRef(s, 0, 0, 0, 1)
B1(s) == RangeRef(s, 0, 1, 0, 1)

Fill(nrows, ncols, x) ==
  LET row[j \in 0..ncols] == IF j = 0 THEN <<>> ELSE Append(row[j - 1], x)
      out[i \in 0..nrows] == IF i = 0 THEN <<>> ELSE Append(out[i - 1], row[ncols])
  IN  out[nrows]

P1 == <<"d1">>

\* "=A1+1", "=A0", "=B2+1", "=1+", "=SUM(A1:A2)", "=1+1"
FSelf == Expr(<<RefT(ColA, 1), NumT(1)>>)
FRowZero == Expr(<<RefT(ColA, 0)>>)
FOutside == Expr(<<RefT(ColB, 2), NumT(1)>>)
FBad == BadExpr(<<NumT(1)>>)
FSum == Expr(<<SumT(ColA, 1, ColA, 2)>>)
FConst == Expr(<<NumT(1), NumT(1)>>)

NameArgs(n) == Args(n, NoSheet, NoRange, <<>>, NoFormat, FALSE, <<>>)
ValuesArgs(range, values, hasProv, prov) == Args("", NoSheet, range, values, NoFormat, hasProv, prov)
FormulasArgs(range, formulas) == Args("", NoSheet, range, formulas, NoFormat, FALSE, <<>>)
FormatArgs(range, format) == Args("", NoSheet, range, <<>>, format, FALSE, <<>>)
ProvArgs(range, prov) == Args("", NoSheet, range, <<>>, NoFormat, TRUE, prov)

\* The engine: the six documented operations on cell A1 of either sheet,
\* undo and checkpoint.
Ranges == {A1("Sheet1"), A1("S2")}

CreateSheet == \E n \in Names : Dispatch("createSheet", NameArgs(n))

DeleteSheet == \E n \in Names : Dispatch("deleteSheet", NameArgs(n))

SetValues == \E range \in Ranges, hasProv \in BOOLEAN :
  Dispatch("setValues", ValuesArgs(range, Fill(1, 1, Num(1)), hasProv, IF hasProv THEN P1 ELSE <<>>))

SetFormulas == \E range \in Ranges : Dispatch("setFormulas", FormulasArgs(range, Fill(1, 1, FConst)))

FormatRange == \E range \in Ranges : Dispatch("formatRange", FormatArgs(range, "percent"))

LinkProvenance == \E range \in Ranges : Dispatch("linkProvenance", ProvArgs(range, P1))

\* The structures handed to loadFromJSON: no sheet, or one sheet of values.
LoadData == {<<>>, <<[name |-> "S2", rows |-> <<<<Num(1)>>, <<>>>>]>>}

Load == \E data \in LoadData : LoadFromJSON(data)

Next == CreateSheet \/ DeleteSheet \/ SetValues \/ SetFormulas \/ FormatRange \/ LinkProvenance \/ Undo \/ Checkpoint

Spec == Init /\ [][Next]_vars

\* Loading a workbook between writes, undo and checkpoints.
LoadSetValues == Dispatch("setValues", ValuesArgs(A1("Sheet1"), Fill(1, 1, Num(1)), FALSE, <<>>))

NextLoad == Load \/ LoadSetValues \/ DeleteSheet \/ Undo \/ Checkpoint

SpecLoad == Init /\ [][NextLoad]_vars

\* Loading, writing and deleting a sheet, with undo() called again and
\* again: a call of undo() that is due is made.
NextUndo == Load \/ LoadSetValues \/ DeleteSheet \/ Undo

SpecUndo == Init /\ [][NextUndo]_vars /\ WF_vars(Undo)

\* POST /api/import-xlsx: the body is handed to loadFromJSON when its
\* sheets member is an array; an entry of the array may lack its rows.
ImportData == LoadData \cup {<<[name |-> "S2"]>>}

ImportXlsx == \E data \in ImportData : LoadFromJSON(data)

NextImport == ImportXlsx \/ LoadSetValues \/ Undo \/ Checkpoint

SpecImport == Init /\ [][NextImport]_vars

\* Writes whose array fits the range, is smaller than it, or has more rows
\* or columns than it, on one sheet.
ShapeRanges == {A1("Sheet1"), A1B1("Sheet1"), A1("S2")}
ValueArrays == {Fill(1, 1, Num(1)), Fill(1, 2, Num(2)), Fill(2, 1, Num(1))}
FormulaArrays == {Fill(1, 1, FConst), Fill(1, 2, FConst), Fill(2, 1, FConst)}

ShapeSetValues == \E range \in ShapeRanges, values \in ValueArrays :
  Dispatch("setValues", ValuesArgs(range, values, FALSE, <<>>))

ShapeSetFormulas == \E range \in ShapeRanges, formulas \in FormulaArrays :
  Dispatch("setFormulas", FormulasArgs(range, formulas))

NextShape == ShapeSetValues \/ ShapeSetFormulas \/ Undo

SpecShape == Init /\ [][NextShape]_vars

\* The evaluator: one sheet, single-cell writes of values and formulas.
EvalRanges == {A1("Sheet1"), B1("Sheet1")}
EvalValues == {Num(1), StrX}
EvalFormulas == {FSelf, FRowZero, FOutside, FBad, FSum, FConst}

EvalSetValues == \E range \in EvalRanges, v \in EvalValues :
  Dispatch("setValues", ValuesArgs(range, Fill(1, 1, v), FALSE, <<>>))

EvalSetFormulas == \E range \in EvalRanges, f \in EvalFormulas :
  Dispatch("setFormulas", FormulasArgs(range, Fill(1, 1, f)))

SheetOpsRequest == \E range \in EvalRanges, f \in EvalFormulas :
  SheetOps("setFormulas", FormulasArgs(range, Fill(1, 1, f)))

NextEval == EvalSetValues \/ EvalSetFormulas \/ SheetOpsRequest \/ EvaluateAll \/ UndoRequest

SpecEval == Init /\ [][NextEval]_vars

\* The plan executor: plans of up to MaxPlanLen steps.
LegacyRange(s) == RangeRef(s, 0, 0, Undef, Undef)

PlanSteps ==
  { Step("createSheet", NameArgs("S2"), Undef, Undef),
    Step("setValues", ValuesArgs(A1("Sheet1"), Fill(1, 1, Num(1)), FALSE, <<>>), Undef, Undef),
    Step("setValues", ValuesArgs(A1("S2"), Fill(1, 1, Num(2)), FALSE, <<>>), Undef, Undef),
    Step("setValues", ValuesArgs(LegacyRange("Sheet1"), Fill(1, 1, Num(2)), FALSE, <<>>), 0, 1),
    Step("setFormulas", FormulasArgs(B1("Sheet1"), Fill(1, 1, FRowZero)), Undef, Undef),
    Step("formatChart", NoArgs, Undef, Undef) }

Plans == UNION {[1..n -> PlanSteps] : n \in 0..MaxPlanLen}

RunPlan == \E steps \in Plans : ExecutePlan(steps)

NextPlan == RunPlan \/ Undo

SpecPlan == Init /\ [][NextPlan]_vars

\* dispatch called directly with the inverse-only operations and with a
\* name outside the switch, in either mode, between documented operations.
InverseOnly ==
  \/ Dispatch("setCells", Args("", NoSheet, A1("Sheet1"), Fill(1, 1, Cell(Num(2), NoFormula, NoFormat, 0)), NoFormat, FALSE, <<>>))
  \/ Dispatch("restoreSheet", Args("", [name |-> "S2", rows |-> <<>>], NoRange, <<>>, NoFormat, FALSE, <<>>))
  \/ Dispatch("noop", NoArgs)

UnknownOp ==
  \/ Dispatch("formatChart", NoArgs)
  \/ DispatchInternal("formatChart", NoArgs)

NextDispatch == CreateSheet \/ DeleteSheet \/ SetValues \/ InverseOnly \/ UnknownOp \/ Undo

SpecDispatch == Init /\ [][NextDispatch]_vars

\* SUM over a row: a loaded sheet with values in A1 and B1 and nothing in
\* C1, "=A1+1" in B1, "=SUM(A1:C1)" or "=A1+A1" in A2.
ColC == <<3>>
FSumRow == Expr(<<SumT(ColA, 1, ColC, 1)>>)
\* "=A1+A1"
FTwice == Expr(<<RefT(ColA, 1), RefT(ColA, 1)>>)
SumValues == {Num(1), StrX, Null}
SumData == {<<[name |-> "Sheet1", rows |-> <<<<v1, v2>>>>]>> : v1 \in SumValues, v2 \in SumValues}

SumLoad == \E data \in SumData : LoadFromJSON(data)

SumSetFormulas ==
  \/ Dispatch("setFormulas", FormulasArgs(B1("Sheet1"), Fill(1, 1, FSelf)))
  \/ \E f \in {FSumRow, FTwice} : Dispatch("setFormulas", FormulasArgs(RangeRef("Sheet1", 1, 0, 1, 0), Fill(1, 1, f)))

NextSum == SumLoad \/ EvalSetValues \/ SumSetFormulas \/ EvaluateAll \/ Undo

SpecSum == Init /\ [][NextSum]_vars

\* The converters: rcToA1 on every row and column up to the bounds, a1ToRc
\* on what rcToA1 returned, and a1ToRc on "a1", "aZ10", "A", "1", "A1B", "".
SampleRefs == {<<97, 49>>, <<97, 90, 49, 48>>, <<65>>, <<49>>, <<65, 49, 66>>, <<>>}

InitA1 ==
  /\ sheets = Constructed.sheets
  /\ events = Constructed.events
  /\ checkpoints = Constructed.checkpoints
  /\ heap = Constructed.heap
  /\ last = Last("new", "", NoArgs, "", 0, <<>>, <<>>)
  /\ mark = Mark(Constructed, TRUE)
  /\ \E r \in 0..MaxRow, c \in 0..MaxCol : a1 = Converted("", r, c, <<>>, NoRc, "")
  /\ agent = NoStream
  /\ evalRun = NoEvaluation

ConvertOut == a1.call = "" /\ RcToA1(a1.r, a1.c)

ConvertBack == a1.call = "rcToA1" /\ A1ToRc("roundTrip", a1.r, a1.c, a1.text, MatchA1(a1.text))

ParseSample == \E text \in SampleRefs :
  a1.call = "" /\ a1.r = 0 /\ a1.c = 0 /\ A1ToRc("a1ToRc", 0, 0, text, MatchA1(text))

NextA1 == ConvertOut \/ ConvertBack \/ ParseSample

SpecA1 == InitA1 /\ [][NextA1]_vars

(***************************************************************************)
(* The agent stream: GET /api/agent/stream and streamPlanAndExecute.  The  *)
(* handler is an async function: it runs without interruption from one     *)
(* await to the next, so each action below is the code between two awaits, *)
(* except that the loop of executePlan, evaluateAll and the checkpoint are *)
(* separate steps during which the handler is not suspended.               *)
(*                                                                         *)
(* The model output is a sequence of chunks.  "{" and "}" open and close   *)
(* the plan object, "a" and "b" are the texts of two steps and "fence" is  *)
(* a code fence (three backquotes).                                        *)
(***************************************************************************)
Chunks == {"{", "}", "a", "b", "fence"}

\* cleanToJsonString: a code fence at the start and one at the end go.
stripLeadingFence(text) == IF text # <<>> /\ text[1] = "fence" THEN Tail(text) ELSE text
stripTrailingFence(text) == IF text # <<>> /\ text[Len(text)] = "fence" THEN SubSeq(text, 1, Len(text) - 1) ELSE text
cleanToJsonString(raw) == stripTrailingFence(stripLeadingFence(raw))

\* The step that the text of a step stands for: "a" writes 1 into A1 of
\* Sheet1, "b" writes 2 into A1 of S2.
StepOf(chunk) ==
  IF chunk = "a" THEN Step("setValues", ValuesArgs(A1("Sheet1"), Fill(1, 1, Num(1)), FALSE, <<>>), Undef, Undef)
  ELSE Step("setValues", ValuesArgs(A1("S2"), Fill(1, 1, Num(2)), FALSE, <<>>), Undef, Undef)

RECURSIVE StepsOf(_)
StepsOf(text) == IF text = <<>> THEN <<>> ELSE <<StepOf(text[1])>> \o StepsOf(Tail(text))

Parsed(ok, steps) == [steps |-> steps, ok |-> ok]

\* A faulty variant of JSONparse: a text that is not closed parses as well.
JSONparseUnclosed(text) ==
  IF Len(text) >= 1 /\ text[1] = "{" /\ \A k \in 2..Len(text) : text[k] \in {"a", "b", "}"}
  THEN Parsed(TRUE, StepsOf(SelectSeq(text, LAMBDA x : x \in {"a", "b"})))
  ELSE Parsed(FALSE, <<>>)

\* JSON.parse: the text is a plan when it is one object, opened and closed,
\* with the texts of steps between; any other text throws.
JSONparse(text) ==
  IF Len(text) >= 2 /\ text[1] = "{" /\ text[Len(text)] = "}" /\ \A k \in 2..(Len(text) - 1) : text[k] \in {"a", "b"}
  THEN Parsed(TRUE, StepsOf(SubSeq(text, 2, Len(text) - 1)))
  ELSE Parsed(FALSE, <<>>)

\* One uninterrupted run of the handler: the workbook w and the stream ag
\* it leaves, within the bounds of the model.
AgentStep(op, err, w, ag, mk) ==
  /\ Len(w.events) <= MaxEvents
  /\ Len(w.checkpoints) <= MaxCheckpoints
  /\ Commit(w)
  /\ agent' = ag
  /\ last' = Last("agent", op, NoArgs, err, 0, <<>>, <<>>)
  /\ mark' = mk
  /\ UNCHANGED <<a1, evalRun>>

Unmarked == [mark EXCEPT !.clean = FALSE]

\* The catch of the handler: an error event, then res.end().
Caught(ag) == [ag EXCEPT !.pc = "closed", !.out = Append(@, "error")]

\* The request arrives.  Without a goal it is answered 400.  Otherwise the
\* context and a status are sent; with Gemini chosen and no API key the
\* call throws at once, else the request to the backend is made.
StreamStart(choice, goal, configured) ==
  /\ agent.pc = "idle"
  /\ AgentStep("start", "", Current,
               IF ~goal THEN [agent EXCEPT !.pc = "closed", !.choice = choice]
               ELSE IF choice = "gemini" /\ ~configured
                    THEN Caught([agent EXCEPT !.choice = choice, !.out = <<"context", "status">>])
               ELSE [agent EXCEPT !.pc = "fetch", !.choice = choice, !.out = <<"context", "status">>, !.calls = 1],
               Unmarked)

\* The backend answers the request: it cannot be reached, it answers 404
\* (Ollama's /api/chat, and /api/generate is asked instead), it answers
\* with another error status, or it begins to stream.
FetchReturns(answer) ==
  /\ agent.pc \in {"fetch", "fetch2"}
  /\ AgentStep("fetch", "", Current,
               CASE answer = "ok" -> [agent EXCEPT !.pc = "read"]
                 [] answer = "404" /\ agent.pc = "fetch" /\ agent.choice = "ollama" ->
                      [agent EXCEPT !.pc = "fetch2", !.calls = @ + 1]
                 [] OTHER -> Caught(agent),
               Unmarked)

\* reader.read() hands over a chunk: a token event, and the chunk is
\* added to the buffered text.
StreamRead(chunk) ==
  /\ agent.pc = "read"
  /\ Len(agent.full) < MaxChunks
  /\ AgentStep("read", "", Current, [agent EXCEPT !.out = Append(@, "token"), !.full = Append(@, chunk)], Unmarked)

\* The stream has ended: status 'parsing plan...', then JSON.parse of the
\* cleaned text.  If it throws, the error event of streamPlanAndExecute and
\* the one of the handler's catch follow; else the plan event, and
\* executePlan begins.
ParsedAs(p) ==
  IF ~p.ok THEN Caught([agent EXCEPT !.out = @ \o <<"status", "error">>])
  ELSE [agent EXCEPT !.out = @ \o <<"status", "plan">>, !.steps = p.steps,
                     !.pc = IF p.steps = <<>> THEN "evaluate" ELSE "step"]

StreamEnd ==
  /\ agent.pc = "read"
  /\ AgentStep("end", "", Current, ParsedAs(JSONparse(cleanToJsonString(agent.full))), Unmarked)

\* One turn of the loop of executePlan.
StepTaken(res, step) ==
  AgentStep("step", res.err, res.w,
            IF res.err # ""
            THEN [agent EXCEPT !.pc = "evaluate", !.executed = Append(@, Failed(step, res.err))]
            ELSE [agent EXCEPT !.pc = IF agent.done + 1 >= Len(agent.steps) THEN "evaluate" ELSE "step",
                               !.done = @ + 1, !.executed = Append(@, step)],
            Unmarked)

PlanStep ==
  /\ agent.pc = "step"
  /\ StepTaken(dispatch(Current, agent.steps[agent.done + 1].op, sanitizedArgs(agent.steps[agent.done + 1]), FALSE),
               agent.steps[agent.done + 1])

\* wb.evaluateAll() of executePlan; what it throws reaches the handler's catch.
EvaluatedAll(ev) ==
  AgentStep("evaluate", ev.err, ev.w, IF ev.err # "" THEN Caught(agent) ELSE [agent EXCEPT !.pc = "checkpoint"], Unmarked)

PlanEvaluate == agent.pc = "evaluate" /\ EvaluatedAll(evaluateAll(Current))

\* wb.checkpoint('agent'), the status 'executed n step(s)', the return to
\* the handler, its done event and res.end().
Checkpointed(w) ==
  AgentStep("checkpoint", "", w, [agent EXCEPT !.pc = "closed", !.out = @ \o <<"status", "done">>], Mark(w, TRUE))

PlanCheckpoint == agent.pc = "checkpoint" /\ Checkpointed(checkpoint(Current, "agent"))

\* Requests of other clients while the stream is open.
OtherSheetOps == SheetOps("setValues", ValuesArgs(A1("Sheet1"), Fill(1, 1, Num(2)), FALSE, <<>>))

OtherLoad == LoadFromJSON(<<[name |-> "S2", rows |-> <<<<Num(1)>>>>]>>)

StartStream == \E choice \in {"ollama", "gemini"}, goal \in BOOLEAN, configured \in BOOLEAN : StreamStart(choice, goal, configured)

BackendAnswers == \E answer \in {"ok", "404", "error", "unreachable"} : FetchReturns(answer)

ReadChunk == \E chunk \in Chunks : StreamRead(chunk)

NextAgent ==
  \/ StartStream \/ BackendAnswers \/ ReadChunk \/ StreamEnd \/ PlanStep \/ PlanEvaluate \/ PlanCheckpoint
  \/ OtherSheetOps \/ UndoRequest \/ OtherLoad

SpecAgent == Init /\ [][NextAgent]_vars

(***************************************************************************)
(* Evaluation call by call.  evaluateCell and evaluateAll as above give    *)
(* the value of a whole call; here a call proceeds step by step, a frame   *)
(* of the stack for every evaluateCell that is evaluating a formula, so    *)
(* that whether a call comes to an end is a property of the behaviours.    *)
(***************************************************************************)
\* The cells of the rectangle of sumRange in the order of its loops.
RECURSIVE RectCells(_, _, _, _, _)
RectCells(r, c, c0, rmax, cmax) ==
  IF r > rmax THEN <<>>
  ELSE IF c > cmax THEN RectCells(r + 1, c0, c0, rmax, cmax)
  ELSE <<[r |-> r, c |-> c]>> \o RectCells(r, c + 1, c0, rmax, cmax)

RectOver(a, b) == RectCells(Min(a.r, b.r), Min(a.c, b.c), Min(a.c, b.c), Max(a.r, b.r), Max(a.c, b.c))

CellsOfTerm(t) ==
  IF t.t = "sum" THEN RectOver(a1ToRc(t.col, t.row), a1ToRc(t.col2, t.row2))
  ELSE <<a1ToRc(t.col, t.row)>>

RECURSIVE CellsOfTerms(_)
CellsOfTerms(terms) == IF terms = <<>> THEN <<>> ELSE CellsOfTerm(terms[1]) \o CellsOfTerms(Tail(terms))

\* The calls of evaluateCell that the two replace() passes make for a
\* formula: the cells of every SUM first, then every reference.
Todo(f) == CellsOfTerms(SelectSeq(f.terms, IsSumTerm) \o SelectSeq(f.terms, IsRefTerm))

\* A faulty variant of Visited: no cell ever counts as visited.
NeverVisited(seen, cell) == FALSE

\* seen.has(key)
Visited(seen, cell) == cell \in seen

EvalCommit(rows, e) ==
  /\ sheets' = [sheets EXCEPT ![evalRun.sheet].rows = rows]
  /\ evalRun' = e
  /\ UNCHANGED <<events, checkpoints, heap, last, mark, a1, agent>>

\* model.evaluateCell(sheet, r, c), seen being a new Set
EvalBegin(i, r, c) ==
  /\ Resting(evalRun.pc) /\ Suspended(agent.pc)
  /\ evalRun' = Evaluation("call", <<>>, {}, [r |-> r, c |-> c], Null, i, [r |-> r, c |-> c], FALSE)
  /\ last' = Last("evaluateCell", "", NoArgs, "", 0, <<>>, <<>>)
  /\ mark' = Unmarked
  /\ UNCHANGED <<sheets, events, checkpoints, heap, a1, agent>>

\* model.evaluateAll()
EvalAllBegin ==
  /\ Resting(evalRun.pc) /\ Suspended(agent.pc)
  /\ evalRun' = Evaluation("loop", <<>>, {}, [r |-> 0, c |-> 0], Null, 1, [r |-> 0, c |-> 0], TRUE)
  /\ last' = Last("evaluateAll", "", NoArgs, "", 0, <<>>, <<>>)
  /\ mark' = Unmarked
  /\ UNCHANGED <<sheets, events, checkpoints, heap, a1, agent>>

\* The loops of evaluateAll: the next sheet, the next row, or the call of
\* evaluateCell for the cell reached, with a new Set.
LoopOver(rows, at) ==
  IF at.r >= Len(rows) THEN [evalRun EXCEPT !.sheet = @ + 1, !.top = [r |-> 0, c |-> 0]]
  ELSE IF at.c >= Len(rows[at.r + 1]) THEN [evalRun EXCEPT !.top = [r |-> at.r + 1, c |-> 0]]
  ELSE [evalRun EXCEPT !.pc = "call", !.seen = {}, !.arg = at]

StepLoop ==
  /\ evalRun.pc = "loop"
  /\ IF evalRun.sheet > Len(sheets)
     THEN evalRun' = [evalRun EXCEPT !.pc = "returned"] /\ UNCHANGED <<sheets, events, checkpoints, heap, last, mark, a1, agent>>
     ELSE EvalCommit(sheets[evalRun.sheet].rows, LoopOver(sheets[evalRun.sheet].rows, evalRun.top))

\* The head of evaluateCell on the sheet as getCell has grown it: the row
\* lookup throws for row -1, a cell without a formula returns its value, a
\* formula begins its two passes.
Entered(rows1, cell, e) ==
  IF cell.r < 0 THEN EvalCommit(rows1, [e EXCEPT !.pc = "threw", !.stack = <<>>])
  ELSE IF rows1[cell.r + 1][cell.c + 1].formula.k # "expr"
       THEN EvalCommit(rows1, [e EXCEPT !.pc = "back", !.v = rows1[cell.r + 1][cell.c + 1].value])
  ELSE /\ Len(e.stack) < MaxDepth
       /\ EvalCommit(rows1, [e EXCEPT !.pc = "next",
                                      !.stack = Append(@, Frame(cell.r, cell.c, Todo(rows1[cell.r + 1][cell.c + 1].formula),
                                                                SumNums(rows1[cell.r + 1][cell.c + 1].formula.terms),
                                                                rows1[cell.r + 1][cell.c + 1].formula.bad))])

StepCall ==
  /\ evalRun.pc = "call"
  /\ IF Visited(evalRun.seen, evalRun.arg)
     THEN EvalCommit(sheets[evalRun.sheet].rows, [evalRun EXCEPT !.pc = "back", !.v = RefErr])
     ELSE Entered(ensureSizeRows(sheets[evalRun.sheet].rows, evalRun.arg.r + 1, evalRun.arg.c + 1), evalRun.arg,
                  [evalRun EXCEPT !.seen = @ \cup {evalRun.arg}])

\* The formula on top of the stack goes on: the next call, or, with none
\* left, its value (what the expression comes to, or '#ERROR!').
StepNext ==
  /\ evalRun.pc = "next"
  /\ EvalCommit(sheets[evalRun.sheet].rows,
                IF evalRun.stack[Len(evalRun.stack)].todo = <<>>
                THEN [evalRun EXCEPT !.pc = "back",
                                     !.v = IF evalRun.stack[Len(evalRun.stack)].bad THEN ErrVal
                                           ELSE Num(evalRun.stack[Len(evalRun.stack)].total),
                                     !.stack = SubSeq(@, 1, Len(@) - 1)]
                ELSE [evalRun EXCEPT !.pc = "call", !.arg = Head(evalRun.stack[Len(evalRun.stack)].todo)])

\* A call of evaluateCell returns v: to the formula that made it, which
\* adds the number it stands for, to the loops of evaluateAll, or to the
\* caller of the top-level call.
StepBack ==
  /\ evalRun.pc = "back"
  /\ EvalCommit(sheets[evalRun.sheet].rows,
                IF evalRun.stack # <<>>
                THEN [evalRun EXCEPT !.pc = "next",
                                     !.stack[Len(evalRun.stack)].total = @ + RefNumber(evalRun.v),
                                     !.stack[Len(evalRun.stack)].todo = Tail(@)]
                ELSE IF evalRun.all THEN [evalRun EXCEPT !.pc = "loop", !.top.c = @ + 1]
                ELSE [evalRun EXCEPT !.pc = "returned"])

EvalStep == StepLoop \/ StepCall \/ StepNext \/ StepBack

\* "=B1+1"
FNext == Expr(<<RefT(ColB, 1), NumT(1)>>)

\* Formulas that refer to themselves, to each other, to their own SUM
\* range, beyond the sheet and to row 0, in A1 and B1.
TermFormulas == {FSelf, FNext, FSum, FOutside, FRowZero, FTwice}

TermSetFormulas == \E range \in EvalRanges, f \in TermFormulas :
  Dispatch("setFormulas", FormulasArgs(range, Fill(1, 1, f)))

CallEvaluateCell == \E i \in 1..Len(sheets), r \in 0..1, c \in 0..1 : EvalBegin(i, r, c)

NextTerm == TermSetFormulas \/ CallEvaluateCell \/ EvalAllBegin \/ EvalStep

\* A call that has begun goes on: the code of the evaluator is synchronous.
SpecTerm == Init /\ [][NextTerm]_vars /\ WF_vars(EvalStep)

(***************************************************************************)
(* Comparing workbooks cell for cell.  A position that a sheet does not    *)
(* have (yet) counts as the empty value cell that ensureSize would put     *)
(* there, and an absent provenance list as the empty list.                 *)
(***************************************************************************)
Content(cell, h) ==
  [value |-> cell.value, formula |-> cell.formula, format |-> cell.format,
   provenance |-> IF cell.prov = 0 THEN <<>> ELSE h[cell.prov]]

HasCell(rows, r, c) == 0 <= r /\ r < Len(rows) /\ 0 <= c /\ c < Len(rows[r + 1])

ContentAt(rows, h, r, c) == IF HasCell(rows, r, c) THEN Content(rows[r + 1][c + 1], h) ELSE Content(EmptyCell, h)

Width(rows) == IF rows = <<>> THEN 0 ELSE CHOOSE n \in {Len(rows[i]) : i \in 1..Len(rows)} : \A i \in 1..Len(rows) : Len(rows[i]) <= n

Positions(rowsA, rowsB) == (0..(Max(Len(rowsA), Len(rowsB)) - 1)) \X (0..(Max(Width(rowsA), Width(rowsB)) - 1))

SheetNames(ss) == {ss[i].name : i \in 1..Len(ss)}

RowsNamed(ss, name) == ss[CHOOSE i \in 1..Len(ss) : ss[i].name = name].rows

SameCells(rowsA, hA, rowsB, hB) ==
  \A p \in Positions(rowsA, rowsB) : ContentAt(rowsA, hA, p[1], p[2]) = ContentAt(rowsB, hB, p[1], p[2])

SameContent(ssA, hA, ssB, hB) ==
  /\ SheetNames(ssA) = SheetNames(ssB)
  /\ \A name \in SheetNames(ssA) : SameCells(RowsNamed(ssA, name), hA, RowsNamed(ssB, name), hB)

RECURSIVE UndoTimes(_, _)
UndoTimes(w, n) == IF n = 0 THEN w ELSE UndoTimes(undo(w).w, n - 1)

UndoDepth == 2 * MaxEvents + 2

\* C1: after any sequence of documented mutating operations applied since
\* the newest checkpoint, some number of undo() calls brings the workbook
\* back to its content at that checkpoint (same sheets, same cells).
C1_UndoReturnsToCheckpoint ==
  mark.clean => \E n \in 0..UndoDepth :
    LET w == UndoTimes(Current, n) IN SameContent(w.sheets, w.heap, mark.sheets, mark.heap)

FailedAt(executed) == executed # <<>> /\ executed[Len(executed)].explain # ""

AgentCheckpointTaken ==
  /\ checkpoints # <<>>
  /\ checkpoints[Len(checkpoints)] = [id |-> "agent", atEvent |-> Len(events)]

\* C2: when step k of a plan fails in dispatch, steps 1..k-1 are returned
\* verbatim and their events are the newest events of the log, step k is
\* returned with a failure explanation, nothing after step k is returned,
\* and the 'agent' checkpoint is taken.
C2_FailedStepStopsPlan ==
  (last.call = "executePlan" /\ FailedAt(last.executed)) =>
    LET k == Len(last.executed) IN
      /\ \A i \in 1..(k - 1) : last.executed[i] = last.plan[i]
      /\ \A i \in 1..(k - 1) : events[Len(events) - (k - 1) + i].op = last.plan[i].op
      /\ [last.executed[k] EXCEPT !.explain = ""] = last.plan[k]
      /\ last.err = ""
      /\ AgentCheckpointTaken

\* C3: whenever plan execution ends (empty plan, all steps applied, or
\* stopped at a failed step), evaluateAll() has completed and the newest
\* checkpoint is 'agent' with atEvent equal to the event-log length.
C3_PlanEndsCheckpointed ==
  last.call = "executePlan" => (last.err = "" /\ AgentCheckpointTaken)

HoldsFormula(ss, name, r, c, f) ==
  /\ name \in SheetNames(ss)
  /\ HasCell(RowsNamed(ss, name), r, c)
  /\ RowsNamed(ss, name)[r + 1][c + 1].formula = f

\* C4: a cell A1 that holds =A1+1 evaluates to #REF! (and the evaluation
\* returns).
C4_SelfReferenceIsRefErr ==
  HoldsFormula(sheets, "Sheet1", 0, 0, FSelf) =>
    LET res == Evaluated(RowsNamed(sheets, "Sheet1"), 0, 0) IN ~res.threw /\ res.v = RefErr

\* C5: a dispatch call that fails has modified no cell and logged no event.
C5_FailedDispatchChangesNothing ==
  [][(last'.call = "dispatch" /\ last'.err # "") =>
       (SameContent(sheets, heap, sheets', heap') /\ events' = events)]_vars

OutsideUnchanged(range) ==
  /\ SheetNames(sheets') = SheetNames(sheets)
  /\ \A name \in SheetNames(sheets) :
       \A p \in Positions(RowsNamed(sheets, name), RowsNamed(sheets', name)) :
         (name # range.sheet \/ ~InRange(range, p[1], p[2])) =>
           ContentAt(RowsNamed(sheets', name), heap', p[1], p[2]) = ContentAt(RowsNamed(sheets, name), heap, p[1], p[2])

\* C6: a successful setValues changes no cell outside the rectangle of its
\* range, whatever the size of the values array.
C6_SetValuesKeepsOutside ==
  [][(last'.call = "dispatch" /\ last'.op = "setValues" /\ last'.err = "") =>
       OutsideUnchanged(last'.args.range)]_vars

\* C7: after a successful setValues every cell of the range rectangle has
\* no formula.
C7_SetValuesClearsFormulas ==
  (last.call = "dispatch" /\ last.op = "setValues" /\ last.err = "") =>
    LET rg == last.args.range IN
      \A r \in rg.r1..rg.r2, c \in rg.c1..rg.c2 :
        ContentAt(RowsNamed(sheets, rg.sheet), heap, r, c).formula = NoFormula

\* C8: evaluateAll() never raises, whatever the workbook holds.
C8_EvaluateAllNeverThrows ==
  last.call = "evaluateAll" => last.err = ""

\* C9: evaluateAll leaves the cells and dimensions of every sheet, the
\* event log and the checkpoints as they were.
C9_EvaluationIsPure ==
  [][last'.call = "evaluateAll" =>
       (sheets' = sheets /\ events' = events /\ checkpoints' = checkpoints)]_vars

\* C10: after a mutation followed by evaluateAll() (the sheetOps request),
\* the value toJSON reports for a cell that holds a formula is the value
\* the formula evaluates to.
C10_ReadApiShowsEvaluated ==
  (last.call = "sheetOps" /\ last.err = "") =>
    \A i \in 1..Len(sheets) : \A r \in 0..(Len(sheets[i].rows) - 1) : \A c \in 0..(Len(sheets[i].rows[r + 1]) - 1) :
      sheets[i].rows[r + 1][c + 1].formula.k = "expr" =>
        toJSONCell(sheets[i].rows[r + 1][c + 1]).value = Evaluated(sheets[i].rows, r, c).v

ProvenanceAt(ss, h, range, r, c) == ContentAt(RowsNamed(ss, range.sheet), h, r, c).provenance

\* C11: an operation that carries provenance (setValues with a provenance
\* argument, linkProvenance) keeps the entries a cell of its range already
\* has and appends the new entries after them.
C11_ProvenanceIsAdditive ==
  [][(/\ last'.call = "dispatch"
      /\ last'.err = ""
      /\ last'.op \in {"setValues", "linkProvenance"}
      /\ last'.args.hasProv) =>
       LET rg == last'.args.range IN
         \A r \in rg.r1..rg.r2, c \in rg.c1..rg.c2 :
           ProvenanceAt(sheets', heap', rg, r, c) = ProvenanceAt(sheets, heap, rg, r, c) \o last'.args.prov]_vars

\* What undo() leaves of the workbook d.w that a dispatch call left.
Undone(d) == undo(d.w).w

RestoredBy(d) == d.err = "" => SameContent(Undone(d).sheets, Undone(d).heap, sheets, heap)

\* C12: in every reachable state, setValues, setFormulas or formatRange on
\* a range followed at once by undo() gives back the workbook of before
\* the operation, cell for cell, inside the range and outside it.
C12_UndoRestoresRange ==
  \A range \in ShapeRanges :
    /\ \A values \in ValueArrays : RestoredBy(dispatch(Current, "setValues", ValuesArgs(range, values, FALSE, <<>>), FALSE))
    /\ \A formulas \in FormulaArrays : RestoredBy(dispatch(Current, "setFormulas", FormulasArgs(range, formulas), FALSE))
    /\ RestoredBy(dispatch(Current, "formatRange", FormatArgs(range, "percent"), FALSE))

\* C13: a successful dispatch call appends exactly one event, that of its
\* operation, at the end of the event log; a failed call appends none.
C13_OneEventPerDispatch ==
  [][last'.call = "dispatch" =>
       IF last'.err = ""
       THEN /\ Len(events') = Len(events) + 1
            /\ SubSeq(events', 1, Len(events)) = events
            /\ events'[Len(events')].op = last'.op
       ELSE events' = events]_vars

\* The case labels of the switch in dispatch.
EnumeratedOps ==
  {"createSheet", "deleteSheet", "restoreSheet", "setValues", "setFormulas", "formatRange", "setCells",
   "linkProvenance", "noop"}

WorkbookUnchanged == sheets' = sheets /\ events' = events /\ checkpoints' = checkpoints /\ heap' = heap

\* C14: dispatch of a name outside the enumerated set throws the
\* unknown-operation error when not internal and returns normally when
\* internal; in both cases sheets, event log and checkpoints stay as they
\* were.
C14_UnknownOpRejected ==
  [][(last'.call \in {"dispatch", "dispatchInternal"} /\ last'.op \notin EnumeratedOps) =>
       /\ last'.err = (IF last'.call = "dispatch" THEN "Unknown op" ELSE "")
       /\ WorkbookUnchanged]_vars

C14_Witness ==
  /\ last.call = "dispatch"
  /\ last.op = "formatChart"
  /\ last.err = "Unknown op"
  /\ Len(events) > 1

\* C15: a non-internal dispatch that names setCells, restoreSheet or noop
\* is rejected and changes nothing.
C15_InverseOnlyOpsRejected ==
  [][(last'.call = "dispatch" /\ last'.op \in {"setCells", "restoreSheet", "noop"}) =>
       (last'.err # "" /\ WorkbookUnchanged)]_vars

RangeOps == {"setValues", "setFormulas", "formatRange", "linkProvenance", "setCells"}

\* C16: createSheet with a name already present fails, deleteSheet and
\* every range operation naming an absent sheet fail, and a call that
\* fails so leaves sheets, event log and checkpoints exactly as they were.
C16_StructuralErrorsChangeNothing ==
  [][last'.call = "dispatch" =>
       /\ (last'.op = "createSheet" /\ last'.args.name \in SheetNames(sheets)) => last'.err = "Sheet exists"
       /\ (last'.op = "deleteSheet" /\ last'.args.name \notin SheetNames(sheets)) => last'.err = "Sheet not found"
       /\ (last'.op \in RangeOps /\ last'.args.range.sheet \notin SheetNames(sheets)) => last'.err = "Sheet not found"
       /\ last'.err \in {"Sheet exists", "Sheet not found"} => WorkbookUnchanged]_vars

C16_Witness ==
  /\ last.call = "dispatch"
  /\ last.op \in RangeOps
  /\ last.err = "Sheet not found"
  /\ Len(events) > 1

\* C17: after loadFromJSON the sheets are the loaded ones (Sheet1, empty,
\* when none was loaded), each holding the loaded values and nothing else;
\* the event log is empty and the only checkpoint is 'import', taken at
\* the length of the (empty) log.
C17_LoadReplacesEverything ==
  last.call = "loadFromJSON" =>
    LET data == last.args.arr IN
      /\ last.err = ""
      /\ events = <<>>
      /\ checkpoints = <<[id |-> "import", atEvent |-> Len(events)]>>
      /\ SheetNames(sheets) = IF data = <<>> THEN {"Sheet1"} ELSE {data[i].name : i \in 1..Len(data)}
      /\ data = <<>> => SameCells(RowsNamed(sheets, "Sheet1"), heap, <<>>, <<>>)
      /\ \A i \in 1..Len(data) :
           SameCells(RowsNamed(sheets, data[i].name), heap,
                     [r \in 1..Len(data[i].rows) |-> [c \in 1..Len(data[i].rows[r]) |->
                        Cell(data[i].rows[r][c], NoFormula, NoFormat, 0)]], <<>>)

C17_Witness ==
  /\ last.call = "loadFromJSON"
  /\ SheetNames(sheets) = {"S2"}
  /\ events = <<>>
  /\ Len(checkpoints) = 1

SameOutcome(a, b) == a.v = b.v /\ a.threw = b.threw

\* The second of two consecutive evaluateAll() calls leaves the workbook
\* (cells and dimensions) that the first left and ends as the first did,
\* and every cell evaluates to the same value before and after the first
\* call.
IdempotentOn(one, two) ==
  /\ two.w = one.w
  /\ two.err = one.err
  /\ \A i \in 1..Len(sheets) :
       \A r \in 0..(Len(one.w.sheets[i].rows) - 1) : \A c \in 0..(Len(one.w.sheets[i].rows[r + 1]) - 1) :
         SameOutcome(Evaluated(sheets[i].rows, r, c), Evaluated(one.w.sheets[i].rows, r, c))

\* C18: evaluateAll() is idempotent: from every reachable state, a second
\* call right after the first yields the same values and leaves the same
\* workbook as the first call alone.
C18_EvaluateAllIdempotent == IdempotentOn(evaluateAll(Current), evaluateAll(evaluateAll(Current).w))

\* What a cell contributes to a sum: its number when it evaluates to one.
NumericOf(v) == IF v.k = "num" THEN v.n ELSE 0

\* The sum of the numeric cells of the rectangle (r..rmax) x (c0..cmax),
\* each cell evaluated on its own, from (r, c) on.
RECURSIVE RectSum(_, _, _, _, _, _)
RectSum(rows, r, c, c0, rmax, cmax) ==
  IF r > rmax THEN 0
  ELSE IF c > cmax THEN RectSum(rows, r + 1, c0, c0, rmax, cmax)
  ELSE NumericOf(Evaluated(rows, r, c).v) + RectSum(rows, r, c + 1, c0, rmax, cmax)

SumOfRectangle(rows, t) ==
  LET a == a1ToRc(t.col, t.row)
      b == a1ToRc(t.col2, t.row2)
  IN  RectSum(rows, Min(a.r, b.r), Min(a.c, b.c), Min(a.c, b.c), Max(a.r, b.r), Max(a.c, b.c))

C20_A1RoundTrip ==
  /\ a1.call = "roundTrip" => a1.err = "" /\ a1.back = [r |-> a1.r, c |-> a1.c]
  /\ (a1.call = "rcToA1" /\ a1.r = 0 /\ a1.c = 0) => a1.text = <<65, 49>>
  /\ (a1.call = "rcToA1" /\ a1.r = 0 /\ a1.c = 26) => a1.text = <<65, 65, 49>>

C20_Witness ==
  /\ a1.call = "roundTrip"
  /\ a1.r = 10 /\ a1.c = 702
  /\ a1.text = <<65, 65, 65, 49, 49>>
  /\ a1.back = [r |-> 10, c |-> 702]

\* C23: in every state reached through the documented operations and undo
\* no cell holds both a formula and a literal value other than null.
C23_FormulaOrValue ==
  \A i \in 1..Len(sheets) : \A r \in 1..Len(sheets[i].rows) : \A c \in 1..Len(sheets[i].rows[r]) :
    sheets[i].rows[r][c].formula = NoFormula \/ sheets[i].rows[r][c].value = Null

\* setValues has just written a number over a cell that setFormulas had
\* given a formula in the call before.
C23_Witness ==
  /\ last.call = "dispatch" /\ last.op = "setValues" /\ last.err = ""
  /\ Len(events) >= 2
  /\ events[Len(events) - 1].op = "setFormulas"
  /\ events[Len(events) - 1].inverse.range = last.args.range
  /\ ContentAt(RowsNamed(sheets, last.args.range.sheet), heap, 0, 0).value = Num(1)
  /\ ContentAt(RowsNamed(sheets, last.args.range.sheet), heap, 0, 0).formula = NoFormula

\* The provenance lists of the cells of range after linkProvenance(range,
\* prov) in the current workbook and then undo(), against the lists now.
ProvenanceRestoredBy(d, range) ==
  d.err = "" =>
    \A r \in range.r1..range.r2, c \in range.c1..range.c2 :
      ProvenanceAt(Undone(d).sheets, Undone(d).heap, range, r, c) = ProvenanceAt(sheets, heap, range, r, c)

\* C25: in every reachable state, linkProvenance(range, prov) followed at
\* once by undo() leaves each cell of the range with the provenance list it
\* had before the call, also when the list was not empty.
C25_LinkProvenanceUndone ==
  \A range \in Ranges :
    ProvenanceRestoredBy(dispatch(Current, "linkProvenance", ProvArgs(range, P1), FALSE), range)

CreateUndone(d, name) == d.err = "" => name \notin SheetNames(Undone(d).sheets)

DeleteUndone(d, name) ==
  d.err = "" =>
    /\ name \in SheetNames(Undone(d).sheets)
    /\ SameCells(RowsNamed(Undone(d).sheets, name), Undone(d).heap, RowsNamed(sheets, name), heap)

\* C26: in every reachable state, createSheet(name) followed at once by
\* undo() leaves no sheet of that name, and deleteSheet(name) followed at
\* once by undo() leaves a sheet of that name whose cells have the value,
\* formula, format and provenance they had before the deletion.
C26_SheetOpsUndone ==
  \A name \in Names :
    /\ CreateUndone(dispatch(Current, "createSheet", NameArgs(name), FALSE), name)
    /\ DeleteUndone(dispatch(Current, "deleteSheet", NameArgs(name), FALSE), name)

\* undo() has just put back a deleted sheet that holds a number.
C26_Witness ==
  /\ last.call = "undo" /\ last.err = "" /\ last.popped = 1
  /\ events # <<>>
  /\ events[Len(events)].op = "restoreSheet"
  /\ "Sheet1" \in SheetNames(sheets)
  /\ ContentAt(RowsNamed(sheets, "Sheet1"), heap, 0, 0).value = Num(1)

\* C27: undo() on a non-empty log returns normally with the popped event,
\* leaves the events below the most recent one as they were and puts the
\* event of the inverse operation in the place of the most recent one; on
\* an empty log it pops nothing and changes nothing.
C27_UndoPopsAndAppends ==
  [][last'.call = "undo" =>
       IF events = <<>>
       THEN last'.popped = 0 /\ UNCHANGED <<sheets, events, checkpoints, heap>>
       ELSE /\ last'.err = "" /\ last'.popped = 1
            /\ Len(events') = Len(events)
            /\ SubSeq(events', 1, Len(events) - 1) = SubSeq(events, 1, Len(events) - 1)
            /\ events'[Len(events')].op = events[Len(events)].inverse.op]_vars

\* C28: when undo() has reverted a cell-range operation (the log ends with
\* the setCells event of that undo), a second undo() leaves every cell of
\* every sheet as the first undo left it.
C28_UndoOfUndoIsNotRedo ==
  [][(/\ last.call = "undo" /\ last.err = "" /\ last.popped = 1
      /\ events # <<>>
      /\ events[Len(events)].op = "setCells"
      /\ last'.call = "undo") =>
       SameContent(sheets', heap', sheets, heap)]_vars

\* The second undo() has acted: it popped the setCells event of the first
\* undo, which left only the constructor's event, and the cell that the
\* reverted operation had written has no value, formula or format.
C28_Witness ==
  /\ last.call = "undo" /\ last.err = "" /\ last.popped = 1
  /\ Len(events) = 1 /\ events[1].op = "createSheet"
  /\ "Sheet1" \in SheetNames(sheets)
  /\ HasCell(RowsNamed(sheets, "Sheet1"), 0, 0)
  /\ ContentAt(RowsNamed(sheets, "Sheet1"), heap, 0, 0) = Content(EmptyCell, heap)

\* The value that one occurrence of the reference t stands for when the
\* cell it names holds no formula: the number in the cell, 0 otherwise.
OperandOf(rows, t) == RefNumber(ContentAt(rows, heap, a1ToRc(t.col, t.row).r, a1ToRc(t.col, t.row).c).value)

RECURSIVE SumOfOperands(_, _)
SumOfOperands(rows, terms) ==
  IF terms = <<>> THEN 0
  ELSE (IF terms[1].t = "ref" THEN OperandOf(rows, terms[1]) ELSE terms[1].n) + SumOfOperands(rows, Tail(terms))

\* Every term of the formula is a number or a reference, and every
\* reference names a cell without a formula (so nothing is circular).
RefersToValuesOnly(rows, f) ==
  /\ f.k = "expr" /\ ~f.bad
  /\ \A i \in 1..Len(f.terms) :
       /\ f.terms[i].t \in {"num", "ref"}
       /\ f.terms[i].t = "ref" =>
            /\ f.terms[i].row >= 1
            /\ ContentAt(rows, heap, a1ToRc(f.terms[i].col, f.terms[i].row).r, a1ToRc(f.terms[i].col, f.terms[i].row).c).formula = NoFormula

\* C29: in every reachable state, a formula whose references all name
\* cells without a formula (no reference chain leads back to a cell)
\* evaluates to the sum of its literals and of the referenced cells'
\* values, each reference counted at every one of its occurrences.
C29_RepeatedReferenceCounts ==
  \A i \in 1..Len(sheets) : \A r \in 0..(Len(sheets[i].rows) - 1) : \A c \in 0..(Len(sheets[i].rows[r + 1]) - 1) :
    RefersToValuesOnly(sheets[i].rows, sheets[i].rows[r + 1][c + 1].formula) =>
      Evaluated(sheets[i].rows, r, c).v = Num(SumOfOperands(sheets[i].rows, sheets[i].rows[r + 1][c + 1].formula.terms))

\* Every event of type b in out has an event of type a before it.
ComesAfter(out, a, b) == \A j \in 1..Len(out) : out[j] = b => \E i \in 1..(j - 1) : out[i] = a

\* No event of type a in out follows an event of type b.
NoneAfter(out, a, b) == \A i \in 1..Len(out), j \in 1..Len(out) : (out[i] = b /\ out[j] = a) => j < i

Occurs(out, a) == \E i \in 1..Len(out) : out[i] = a

\* executePlan has gone through the plan: every step dispatched, or the
\* loop left at the first step that failed.
PlanExecuted ==
  \/ Len(agent.executed) = Len(agent.steps)
  \/ agent.executed # <<>> /\ agent.executed[Len(agent.executed)].explain # ""

\* C21: at every moment the events sent for an agent stream are in the
\* order status, context, tokens, plan, done: the context event has a
\* status event before it, a token event the context event, no token event
\* follows the plan event, and the done event comes after the plan event
\* and after the plan was executed.
C21_StreamOrder ==
  /\ ComesAfter(agent.out, "status", "context")
  /\ ComesAfter(agent.out, "context", "token")
  /\ NoneAfter(agent.out, "token", "plan")
  /\ ComesAfter(agent.out, "plan", "done")
  /\ Occurs(agent.out, "done") => PlanExecuted /\ agent.pc = "closed"

\* The texts that are JSON: the plan object with the texts of steps
\* between its braces.
PlanTexts == UNION {{<<"{">> \o body \o <<"}">> : body \in [1..m -> {"a", "b"}]} : m \in 0..MaxChunks}

\* The buffered output is JSON once the code fences around it are taken off.
IsJSON(text) ==
  \E lead \in {<<>>, <<"fence">>}, trail \in {<<>>, <<"fence">>} :
    \E core \in PlanTexts : text = lead \o core \o trail

\* C22: when the stream ends and the buffered output is not JSON, the
\* request ends with an error event as its last event, without a plan or
\* done event, without a further call of the backend and without a step:
\* sheets, event log and checkpoints stay as they are; and a request that
\* has ended sends nothing more.
C22_ParseFailureIsTerminal ==
  [][/\ (last'.call = "agent" /\ last'.op = "end" /\ ~IsJSON(agent.full)) =>
          /\ agent'.pc = "closed"
          /\ agent'.out[Len(agent'.out)] = "error"
          /\ ~Occurs(agent'.out, "plan") /\ ~Occurs(agent'.out, "done")
          /\ agent'.calls = agent.calls
          /\ agent'.executed = <<>>
          /\ UNCHANGED <<sheets, events, checkpoints, heap>>
     /\ agent.pc = "closed" => agent' = agent]_vars

\* The stream has just ended on "{" and a step without the closing brace,
\* after another request had written to the workbook.
C22_Witness ==
  /\ last.call = "agent" /\ last.op = "end"
  /\ agent.full = <<"{", "a">>
  /\ agent.pc = "closed"
  /\ agent.out = <<"context", "status", "token", "token", "status", "error", "error">>
  /\ Len(events) = 2

\* executePlan has started and its checkpoint is not yet taken.
Executing == agent.pc \in {"step", "evaluate", "checkpoint"}

\* C24: from the first step of executePlan to its 'agent' checkpoint the
\* workbook changes only by the steps of the stream itself; a step of
\* another request changes the workbook of an open stream only while the
\* stream waits for the backend, when no plan step has been executed.
C24_PlanExecutionNotPreempted ==
  [][/\ (Executing /\ agent' = agent) => UNCHANGED <<sheets, events, checkpoints, heap>>
     /\ (agent' = agent /\ agent.pc \notin {"idle", "closed"} /\ <<sheets, events, checkpoints, heap>>' # <<sheets, events, checkpoints, heap>>) =>
          agent.pc \in {"fetch", "fetch2", "read"} /\ agent.executed = <<>>]_vars

\* executePlan stands between its second step and its checkpoint, both
\* steps having succeeded.
C24_Witness ==
  /\ agent.pc = "checkpoint"
  /\ Len(agent.executed) = 2
  /\ agent.executed[1].explain = "" /\ agent.executed[2].explain = ""
  /\ Len(events) = 3

\* C30: every call of evaluateCell and of evaluateAll that has begun comes
\* to an end (it returns or throws), whatever the formulas of the workbook
\* refer to.
C30_EvaluationTerminates == [](~Resting(evalRun.pc) => <>Resting(evalRun.pc))

\* evaluateAll has returned on a sheet in which A1 and B1 refer to each
\* other.
C30_Witness ==
  /\ evalRun.pc = "returned" /\ evalRun.all
  /\ Len(sheets) = 1
  /\ HasCell(sheets[1].rows, 0, 1)
  /\ sheets[1].rows[1][1].formula = FNext
  /\ sheets[1].rows[1][2].formula = FSelf

\* Sheet b has at least the rows of sheet a, and each row of a is at least
\* as long in b.
NotShrunk(rowsA, rowsB) ==
  /\ Len(rowsB) >= Len(rowsA)
  /\ \A i \in 1..Len(rowsA) : Len(rowsB[i]) >= Len(rowsA[i])

\* The positions a range operation addresses: its range, and the positions
\* of its array counted from the corner of the range.
Addressed(args, r, c) ==
  \/ InRange(args.range, r, c)
  \/ /\ r - args.range.r1 + 1 \in 1..Len(args.arr)
     /\ c - args.range.c1 + 1 \in 1..Len(args.arr[r - args.range.r1 + 1])

\* The sheet covers the range of the operation, and the cells it did not
\* have before are empty value cells unless the operation addressed them.
GrownOver(rowsA, rowsB, hB, args) ==
  /\ Len(rowsB) >= args.range.r2 + 1
  /\ \A i \in 1..Len(rowsB) : Len(rowsB[i]) >= args.range.c2 + 1
  /\ \A i \in 1..Len(rowsB) : \A j \in 1..Len(rowsB[i]) :
       (~HasCell(rowsA, i - 1, j - 1) /\ ~Addressed(args, i - 1, j - 1)) =>
         Content(rowsB[i][j], hB) = Content(EmptyCell, hB)

\* C31: under a dispatch call or undo(), a sheet that is in the workbook
\* before and after the call loses no row and no row gets shorter; and a
\* successful range operation leaves the sheet covering its range, the
\* cells added outside the positions it addresses being empty value cells.
C31_SheetsNeverShrink ==
  [][last'.call \in {"dispatch", "undo"} =>
       \A name \in SheetNames(sheets) \cap SheetNames(sheets') :
         /\ NotShrunk(RowsNamed(sheets, name), RowsNamed(sheets', name))
         /\ (last'.err = "" /\ last'.op \in RangeOps /\ last'.args.range.sheet = name) =>
              GrownOver(RowsNamed(sheets, name), RowsNamed(sheets', name), heap', last'.args)]_vars

\* C32: in every reachable state every checkpoint's atEvent is at most the
\* length of the event log.
C32_CheckpointsIndexTheLog ==
  \A i \in 1..Len(checkpoints) : checkpoints[i].atEvent <= Len(events)

\* C35: in every reachable state the workbook has at least one sheet.
C35_AtLeastOneSheet == sheets # <<>>

\* The terminal events of a stream.
Terminals(out) == {i \in 1..Len(out) : out[i] \in {"done", "error"}}

\* C36: a request that has ended after opening its event stream has sent
\* exactly one done or error event, as the last event of the stream, and
\* while the request is under way no done or error event has been sent.
C36_OneTerminalEvent ==
  /\ (agent.pc = "closed" /\ agent.out # <<>>) => Terminals(agent.out) = {Len(agent.out)}
  /\ agent.pc \notin {"idle", "closed"} => Terminals(agent.out) = {}

\* C33: when from some moment on undo() is the only call made, the event
\* log becomes empty, and on the empty log undo() pops nothing.
C33_RepeatedUndoEmptiesLog ==
  <>[](last.call = "undo") => <>(events = <<>> /\ undo(Current).popped = 0)

\* C34: undo() returns normally whenever it is called: the inverse of the
\* event it popped has been applied.
C34_UndoNeverRaises ==
  [][last'.call = "undo" => (last'.err = "" /\ (events # <<>> => last'.popped = 1))]_vars

====
